---- MODULE Spec2Model ----
(***************************************************************************)
(* One detection pass of FastCircularDependencyPlugin: the callback tapped *)
(* on optimizeModules / finishModules.  Two implementations of the pass    *)
(* live in the repository: the monolithic one of index.js and the          *)
(* refactored one that follows the declarations in index.d.ts.  They share *)
(* the graph construction and the cycle search and differ in the SCC       *)
(* routine and in the reporting loop; `variant` says which one runs.       *)
(*                                                                         *)
(* Modules are opaque handles (object identity); a resource identifier is  *)
(* a number 1..MaxRes ordered as the strings are, and 0 stands for every   *)
(* falsy resource (null, undefined, '').  Node indices are 0-based as in   *)
(* the code; TLA+ sequences are 1-based, so element i of a JS array a is   *)
(* a[i + 1].  Rendering of paths relative to cwd is not modelled: a path   *)
(* is the resource identifier itself.                                      *)
(***************************************************************************)
EXTENDS Integers, Sequences, FiniteSets, TLC

\* ---- bounds of the model ----
\* graph scenarios: modules in the collection, dependency records in total
MaxModules == 3
MaxDeps == 4
\* wide graph scenarios
WideModules == 4
WideDeps == 4
\* record / option scenarios: modules in the collection, records per module
SmallModules == 2
SmallDeps == 2
\* distinct resource identifiers in the record / option scenarios
MaxRes == 2

\* a missing module (null entry, unresolved dependency) and a falsy resource
Null == 0
NoResource == 0

Min(a, b) == IF a < b THEN a ELSE b

RECURSIVE SeqsOfLen(_, _)
SeqsOfLen(S, n) ==
  IF n = 0 THEN {<<>>}
  ELSE {Append(s, x) : s \in SeqsOfLen(S, n - 1), x \in S}

SeqsUpTo(S, n) == UNION {SeqsOfLen(S, l) : l \in 0..n}

Range(s) == {s[p] : p \in 1..Len(s)}

\* F applied to the value of x: x is evaluated once, however often F uses it
Let(x, F(_)) == CHOOSE r \in {F(v) : v \in {x}} : TRUE

\* ---- the input of a pass and the plugin options ----
VARIABLES
  variant,      \* "index.js" or "index.d.ts"
  modules,      \* the collection handed to the hook: handles, Null for a null entry
  heap,         \* handle -> module object
  options,      \* this.options after the constructor merged the defaults
  pc,           \* position of the pass: "start", "build", "report", "done",
                \* or "startThrew" / "endThrew" when onStart / onEnd threw
  modList, adj, sccs, sccId, sccInvalid,   \* data built by the pass
  mIdx,         \* index.js: loop variable of the reporting loop
  compK, compI, \* index.d.ts: loop variables k and i of the reporting loops
  compilation,  \* [errors, warnings] of the host
  trace         \* callbacks called and diagnostics pushed so far, in order

input == <<variant, modules, heap, options>>
built == <<modList, adj, sccs, sccId, sccInvalid>>
vars == <<variant, modules, heap, options, pc, modList, adj, sccs, sccId,
          sccInvalid, mIdx, compK, compI, compilation, trace>>

\* ---- getResource / getModuleResource ----
\* A module object carries the resource of its rootModule and of its
\* originalModule as rootResource and originalResource (NoResource when the
\* member is absent or has no resource).
getResource(m) ==
  IF m = Null THEN NoResource
  ELSE IF heap[m].resource # NoResource THEN heap[m].resource
  ELSE IF heap[m].rootResource # NoResource THEN heap[m].rootResource
  ELSE IF heap[m].originalResource # NoResource THEN heap[m].originalResource
  ELSE NoResource

\* ---- Array.prototype.sort with a comparator: a stable sort ----
\* keyOf maps an element to the string the comparator compares.  Insert x
\* behind the last element that does not compare greater than it.
RECURSIVE InsertSorted(_, _, _)
InsertSorted(s0, x, keyOf) ==
  Let(s0, LAMBDA s :
    IF s = <<>> THEN <<x>>
    ELSE IF keyOf[s[Len(s)]] > keyOf[x]
      THEN Append(InsertSorted(SubSeq(s, 1, Len(s) - 1), x, keyOf), s[Len(s)])
      ELSE Append(s, x))

RECURSIVE StableSort(_, _)
StableSort(s0, keyOf) ==
  Let(s0, LAMBDA s :
    IF s = <<>> THEN <<>>
    ELSE InsertSorted(StableSort(SubSeq(s, 1, Len(s) - 1), keyOf), s[Len(s)], keyOf))

\* mutant of createSortedModuleList: the list is left in arrival order
createUnsortedModuleList(ms) == SelectSeq(ms, LAMBDA m : m # Null)

\* modList: the non-null entries, sorted by (getResource(m) || '')
createSortedModuleList(ms) ==
  Let(SelectSeq(ms, LAMBDA m : m # Null), LAMBDA list :
    StableSort(list, [m \in Range(list) |-> getResource(m)]))

\* idOf: a Map filled in index order, so a later entry overwrites an earlier one
idOfIn(list, m) ==
  IF \E p \in 1..Len(list) : list[p] = m
    THEN (CHOOSE p \in 1..Len(list) :
            list[p] = m /\ \A q \in (p + 1)..Len(list) : list[q] # m) - 1
    ELSE -1

\* ---- getDeps / collectModuleDependencies ----
\* mutant of keepDep: dep.weak is never looked at
keepDepIgnoringWeak(m, dep, allowAsyncCycles) ==
  /\ dep.kind # "null"
  /\ dep.kind # "CommonJsSelfReferenceDependency"
  /\ dep.module # Null
  /\ getResource(dep.module) # NoResource
  /\ dep.module # m

keepDep(m, dep, allowAsyncCycles) ==
  /\ dep.kind # "null"
  /\ dep.kind # "CommonJsSelfReferenceDependency"
  /\ ~(allowAsyncCycles /\ dep.weak)
  /\ dep.module # Null
  /\ getResource(dep.module) # NoResource
  /\ dep.module # m

\* the loop over deps: the resolved modules of the records kept, in order
collect(m, deps, allowAsyncCycles) ==
  LET kept == SelectSeq(deps, LAMBDA dep : keepDep(m, dep, allowAsyncCycles))
  IN [p \in 1..Len(kept) |-> kept[p].module]

getDeps(m, allowAsyncCycles) == collect(m, heap[m].dependencies, allowAsyncCycles)

\* mutant of pushAll: an index already in the list is not pushed again
RECURSIVE pushDistinct(_, _)
pushDistinct(deps, list) ==
  IF deps = <<>> THEN <<>>
  ELSE LET front == pushDistinct(SubSeq(deps, 1, Len(deps) - 1), list)
           j == idOfIn(list, deps[Len(deps)])
       IN IF j = -1 \/ j \in Range(front) THEN front ELSE Append(front, j)

\* ---- build adjacency ----
\* the inner loop over list = getDeps(from): push idOf.get(dep) unless absent
pushAll(deps, list) ==
  LET known == SelectSeq(deps, LAMBDA d : idOfIn(list, d) # -1)
  IN [p \in 1..Len(known) |-> idOfIn(list, known[p])]

adjOf(m, list, allowAsyncCycles) == pushAll(getDeps(m, allowAsyncCycles), list)

buildAdjacencyList(list, allowAsyncCycles) ==
  [i \in 0..(Len(list) - 1) |-> adjOf(list[i + 1], list, allowAsyncCycles)]

\* ---- Tarjan SCC of index.js: strongconnect ----
\* s is the state the closure shares: index, idx, low, onSt, st, sccs, sccId.
TarjanInit(N) ==
  [index |-> 0,
   idx |-> [i \in 0..(N - 1) |-> -1],
   low |-> [i \in 0..(N - 1) |-> 0],
   onSt |-> [i \in 0..(N - 1) |-> FALSE],
   sccId |-> [i \in 0..(N - 1) |-> -1],
   st |-> <<>>,
   sccs |-> <<>>]

\* do { w = st.pop(); ... } while (w !== v); sccs.push(comp)
RECURSIVE popComponent(_, _, _)
popComponent(v, s0, comp0) ==
  Let(<<s0, comp0>>, LAMBDA sc :
    LET s == sc[1]
        comp == sc[2]
        w == s.st[Len(s.st)]
        t == [s EXCEPT !.st = SubSeq(s.st, 1, Len(s.st) - 1),
                       !.onSt[w] = FALSE,
                       !.sccId[w] = Len(s.sccs)]
    IN IF w # v THEN popComponent(v, t, Append(comp, w))
       ELSE [t EXCEPT !.sccs = Append(t.sccs, Append(comp, w))])

RECURSIVE strongconnect(_, _, _)
RECURSIVE strongconnectEdges(_, _, _, _)
\* mutant of strongconnectEdges: the low-link of a child just visited is not
\* taken over
RECURSIVE strongconnectEdgesNoLowLink(_, _, _, _)
strongconnectEdgesNoLowLink(g, v, a, s0) ==
  Let(s0, LAMBDA s :
    IF a > Len(g[v]) THEN s
    ELSE LET w == g[v][a] IN
      IF s.idx[w] = -1
        THEN strongconnectEdgesNoLowLink(g, v, a + 1, strongconnect(g, w, s))
      ELSE IF s.onSt[w]
        THEN strongconnectEdgesNoLowLink(g, v, a + 1,
               [s EXCEPT !.low[v] = Min(s.low[v], s.idx[w])])
      ELSE strongconnectEdgesNoLowLink(g, v, a + 1, s))

strongconnectEdges(g, v, a, s0) ==
  Let(s0, LAMBDA s :
    IF a > Len(g[v]) THEN s
    ELSE LET w == g[v][a] IN
      IF s.idx[w] = -1
        THEN Let(strongconnect(g, w, s), LAMBDA t :
               strongconnectEdges(g, v, a + 1,
                 [t EXCEPT !.low[v] = Min(t.low[v], t.low[w])]))
      ELSE IF s.onSt[w]
        THEN strongconnectEdges(g, v, a + 1,
               [s EXCEPT !.low[v] = Min(s.low[v], s.idx[w])])
      ELSE strongconnectEdges(g, v, a + 1, s))

strongconnect(g, v, s0) ==
  Let(s0, LAMBDA s :
    LET s1 == [s EXCEPT !.idx[v] = s.index, !.low[v] = s.index,
                        !.index = s.index + 1,
                        !.st = Append(s.st, v), !.onSt[v] = TRUE]
    IN Let(strongconnectEdges(g, v, 1, s1), LAMBDA s2 :
         IF s2.low[v] = s2.idx[v] THEN popComponent(v, s2, <<>>) ELSE s2))

\* for (let v = 0; v < N; v++) if (idx[v] === -1) strongconnect(v)
RECURSIVE tarjanFrom(_, _, _, _)
tarjanFrom(g, N, v, s0) ==
  Let(s0, LAMBDA s :
    IF v >= N THEN s
    ELSE tarjanFrom(g, N, v + 1, IF s.idx[v] = -1 THEN strongconnect(g, v, s) ELSE s))

tarjan(g, N) == tarjanFrom(g, N, 0, TarjanInit(N))

\* ---- Tarjan SCC of index.d.ts: computeStronglyConnectedComponents ----
\* while (stack.length) { w = stack.pop(); ...; if (w === v) break }
\* mutant of popComponentWhile: the test w === v breaks before comp.push(w)
RECURSIVE popComponentWhileBreakFirst(_, _, _)
popComponentWhileBreakFirst(v, s0, comp0) ==
  Let(<<s0, comp0>>, LAMBDA sc :
    LET s == sc[1]
        comp == sc[2]
    IN IF s.st = <<>> THEN [s EXCEPT !.sccs = Append(s.sccs, comp)]
       ELSE LET w == s.st[Len(s.st)]
                t == [s EXCEPT !.st = SubSeq(s.st, 1, Len(s.st) - 1),
                               !.onSt[w] = FALSE]
            IN IF w = v THEN [t EXCEPT !.sccs = Append(t.sccs, comp)]
               ELSE popComponentWhileBreakFirst(v, t, Append(comp, w)))

RECURSIVE popComponentWhile(_, _, _)
popComponentWhile(v, s0, comp0) ==
  Let(<<s0, comp0>>, LAMBDA sc :
    LET s == sc[1]
        comp == sc[2]
    IN IF s.st = <<>> THEN [s EXCEPT !.sccs = Append(s.sccs, comp)]
       ELSE LET w == s.st[Len(s.st)]
                t == [s EXCEPT !.st = SubSeq(s.st, 1, Len(s.st) - 1),
                               !.onSt[w] = FALSE]
            IN IF w = v THEN [t EXCEPT !.sccs = Append(t.sccs, Append(comp, w))]
               ELSE popComponentWhile(v, t, Append(comp, w)))

RECURSIVE strongConnect(_, _, _)
RECURSIVE strongConnectEdges(_, _, _, _)
strongConnectEdges(g, v, a, s0) ==
  Let(s0, LAMBDA s :
    IF a > Len(g[v]) THEN s
    ELSE LET w == g[v][a] IN
      IF s.idx[w] = -1
        THEN Let(strongConnect(g, w, s), LAMBDA t :
               strongConnectEdges(g, v, a + 1,
                 [t EXCEPT !.low[v] = Min(t.low[v], t.low[w])]))
      ELSE IF s.onSt[w]
        THEN strongConnectEdges(g, v, a + 1,
               [s EXCEPT !.low[v] = Min(s.low[v], s.idx[w])])
      ELSE strongConnectEdges(g, v, a + 1, s))

strongConnect(g, v, s0) ==
  Let(s0, LAMBDA s :
    LET s1 == [s EXCEPT !.idx[v] = s.index, !.low[v] = s.index,
                        !.index = s.index + 1,
                        !.st = Append(s.st, v), !.onSt[v] = TRUE]
    IN Let(strongConnectEdges(g, v, 1, s1), LAMBDA s2 :
         IF s2.low[v] = s2.idx[v] THEN popComponentWhile(v, s2, <<>>) ELSE s2))

RECURSIVE computeFrom(_, _, _, _)
computeFrom(g, N, v, s0) ==
  Let(s0, LAMBDA s :
    IF v >= N THEN s
    ELSE computeFrom(g, N, v + 1, IF s.idx[v] = -1 THEN strongConnect(g, v, s) ELSE s))

computeStronglyConnectedComponents(g, N) == computeFrom(g, N, 0, TarjanInit(N)).sccs

\* ---- mark SCCs invalid / flagInvalidComponents ----
\* bad = comp.length <= 1, or some member's module has no resource
flagInvalidComponents(comps, list) ==
  [s \in 1..Len(comps) |->
     \/ Len(comps[s]) <= 1
     \/ \E p \in 1..Len(comps[s]) : getResource(list[comps[s][p] + 1]) = NoResource]

\* ---- findCycleFrom / findSimpleCycleFrom ----
\* d is the state of the closure: seen, stack, and the value dfs returned.
RECURSIVE dfs(_, _, _, _, _)
RECURSIVE dfsEdges(_, _, _, _, _, _)
\* mutant of dfsEdges: stack.pop() is missing when the search backs out
RECURSIVE dfsEdgesNoPop(_, _, _, _, _, _)
dfsEdgesNoPop(g, start, compSet, u, a, d0) ==
  Let(d0, LAMBDA d :
    IF a > Len(g[u]) THEN [d EXCEPT !.ret = FALSE]
    ELSE LET w == g[u][a] IN
      IF w \notin compSet THEN dfsEdgesNoPop(g, start, compSet, u, a + 1, d)
      ELSE IF w = start /\ Len(d.stack) > 1 THEN [d EXCEPT !.ret = TRUE]
      ELSE IF w \notin d.seen
        THEN Let(dfs(g, start, compSet, w, d), LAMBDA t :
               IF t.ret THEN t ELSE dfsEdgesNoPop(g, start, compSet, u, a + 1, t))
      ELSE dfsEdgesNoPop(g, start, compSet, u, a + 1, d))

\* mutant of dfsEdges: the closing edge counts only when stack.length > 2
RECURSIVE dfsEdgesLongCyclesOnly(_, _, _, _, _, _)
dfsEdgesLongCyclesOnly(g, start, compSet, u, a, d0) ==
  Let(d0, LAMBDA d :
    IF a > Len(g[u])
      THEN [d EXCEPT !.stack = SubSeq(d.stack, 1, Len(d.stack) - 1), !.ret = FALSE]
    ELSE LET w == g[u][a] IN
      IF w \notin compSet THEN dfsEdgesLongCyclesOnly(g, start, compSet, u, a + 1, d)
      ELSE IF w = start /\ Len(d.stack) > 2 THEN [d EXCEPT !.ret = TRUE]
      ELSE IF w \notin d.seen
        THEN Let(dfs(g, start, compSet, w, d), LAMBDA t :
               IF t.ret THEN t
               ELSE dfsEdgesLongCyclesOnly(g, start, compSet, u, a + 1, t))
      ELSE dfsEdgesLongCyclesOnly(g, start, compSet, u, a + 1, d))

dfsEdges(g, start, compSet, u, a, d0) ==
  Let(d0, LAMBDA d :
    IF a > Len(g[u])
      THEN [d EXCEPT !.stack = SubSeq(d.stack, 1, Len(d.stack) - 1), !.ret = FALSE]
    ELSE LET w == g[u][a] IN
      IF w \notin compSet THEN dfsEdges(g, start, compSet, u, a + 1, d)
      ELSE IF w = start /\ Len(d.stack) > 1 THEN [d EXCEPT !.ret = TRUE]
      ELSE IF w \notin d.seen
        THEN Let(dfs(g, start, compSet, w, d), LAMBDA t :
               IF t.ret THEN t ELSE dfsEdges(g, start, compSet, u, a + 1, t))
      ELSE dfsEdges(g, start, compSet, u, a + 1, d))

dfs(g, start, compSet, u, d0) ==
  Let(d0, LAMBDA d :
    IF u \in d.seen THEN [d EXCEPT !.ret = FALSE]
    ELSE dfsEdges(g, start, compSet, u, 1,
           [seen |-> d.seen \cup {u}, stack |-> Append(d.stack, u), ret |-> FALSE]))

\* the cycle as a sequence of indices, or <<>> for null
findCycleFrom(g, start, compSet) ==
  Let(dfs(g, start, compSet, start, [seen |-> {}, stack |-> <<>>, ret |-> FALSE]),
      LAMBDA d : IF d.ret THEN Append(d.stack, start) ELSE <<>>)

\* findCycleFrom, then the minimal fallback [i, nb, i]; <<>> when both fail
cycleOf(g, i, compSet) ==
  Let(findCycleFrom(g, i, compSet), LAMBDA cyc :
    LET nbs == SelectSeq(g[i], LAMBDA w : w \in compSet)
    IN IF cyc # <<>> THEN cyc
       ELSE IF nbs # <<>> THEN <<i, nbs[1], i>>
       ELSE <<>>)

\* ---- the reporting loops ----
\* options.exclude and options.include are the sets of resources the RegExp
\* matches; a resource is a path the list of a cycle shows.
pathsOf(cycleIdx) ==
  [p \in 1..Len(cycleIdx) |-> getResource(modList[cycleIdx[p] + 1])]

Event(type, m, cycleIdx) ==
  [type |-> type, module |-> m, cycle |-> cycleIdx, paths |-> pathsOf(cycleIdx)]

\* mutant of handOff: no try/catch around onDetected, a throw leaves the hook
handOffUncaught(m, cycleIdx, thrown) ==
  /\ compilation' = compilation
  /\ trace' = Append(trace, Event(IF options.onDetected THEN "onDetected" ELSE "warning",
                                  m, cycleIdx))
  /\ pc' = IF thrown THEN "detectedThrew" ELSE pc

\* lines 225-236 of index.js, 331-346 of index.d.ts: hand the cycle to
\* onDetected (a throw is caught and pushed to compilation.errors), or push a
\* diagnostic to compilation.errors / compilation.warnings.
handOff(m, cycleIdx, thrown) ==
  /\ pc' = pc
  /\ IF options.onDetected
      THEN /\ trace' = (IF thrown
                          THEN trace \o <<Event("onDetected", m, cycleIdx),
                                          Event("caught", m, cycleIdx)>>
                          ELSE Append(trace, Event("onDetected", m, cycleIdx)))
           /\ compilation' = (IF thrown
                                THEN [compilation EXCEPT !.errors =
                                        Append(@, Event("caught", m, cycleIdx))]
                                ELSE compilation)
    ELSE IF options.failOnError
      THEN /\ trace' = Append(trace, Event("error", m, cycleIdx))
           /\ compilation' = [compilation EXCEPT !.errors =
                                Append(@, Event("error", m, cycleIdx))]
      ELSE /\ trace' = Append(trace, Event("warning", m, cycleIdx))
           /\ compilation' = [compilation EXCEPT !.warnings =
                                Append(@, Event("warning", m, cycleIdx))]

\* mutant of passesFilters: the exclude test is missing
passesFiltersWithoutExclude(resource) ==
  /\ resource # NoResource
  /\ resource \in options.include

\* the include/exclude filters, on the CURRENT module only
passesFilters(resource) ==
  /\ resource # NoResource
  /\ resource \notin options.exclude
  /\ resource \in options.include

\* index.js: what one iteration of the loop over modList reports for the
\* module at mIdx: the cycle, or <<>> when the iteration hits a `continue`
reportOfJs(at) ==
  LET m == modList[at + 1]
      i == idOfIn(modList, m)
      k == IF i = -1 THEN -1 ELSE sccId[i]
  IN IF i = -1 \/ k < 0 THEN <<>>
     ELSE IF sccInvalid[k + 1] THEN <<>>
     ELSE IF ~passesFilters(getResource(m)) THEN <<>>
     ELSE cycleOf(adj, i, Range(sccs[k + 1]))

\* index.d.ts: comp = sccs[k].slice(); sortIndicesByResource(comp, resOf)
sortIndicesByResource(indices) ==
  StableSort(indices, [i \in Range(indices) |-> getResource(modList[i + 1])])

\* index.d.ts: what one iteration of the inner loop reports for comp[i]
reportOfDts(k, i) ==
  LET node == sortIndicesByResource(sccs[k + 1])[i + 1]
  IN IF ~passesFilters(getResource(modList[node + 1])) THEN <<>>
     ELSE cycleOf(adj, node, Range(sccs[k + 1]))

\* ---- the inputs the model draws from ----
\* every resource identifier of the model; the default include /.*/ matches all
ResourceIds == 1..(MaxModules + WideModules + SmallModules + MaxRes)

\* this.options of new FastCircularDependencyPlugin(): exclude /$^/,
\* include /.*/, no callbacks
DefaultOptions ==
  [exclude |-> {}, include |-> ResourceIds, failOnError |-> FALSE,
   allowAsyncCycles |-> FALSE, onDetected |-> FALSE, onStart |-> FALSE,
   onEnd |-> FALSE]

Module(r, deps) ==
  [resource |-> r, rootResource |-> NoResource, originalResource |-> NoResource,
   dependencies |-> deps]

Dep(t) == [kind |-> "other", weak |-> FALSE, module |-> t]

Iota(n) == [h \in 1..n |-> h]

Variants == {"index.js", "index.d.ts"}

\* Graph scenarios: n modules with distinct resources, arriving in
\* descending resource order, and at most `total` plain dependency records
\* between them (none on the module itself); default options.
RECURSIVE DepAssign(_, _, _)
DepAssign(h, n, budget) ==
  IF h > n THEN {<<>>}
  ELSE UNION {{<<d>> \o rest : rest \in DepAssign(h + 1, n, budget - Len(d))} :
              d \in SeqsUpTo({Dep(t) : t \in (1..n) \ {h}}, budget)}

GraphInput(v, n, d) ==
  [variant |-> v, modules |-> Iota(n),
   heap |-> [h \in 1..n |-> Module(n + 1 - h, d[h])],
   options |-> DefaultOptions]

\* Record scenarios: modules 1..n of the collection with distinct resources;
\* module 1 carries any list of at most SmallDeps dependency records, every
\* other module depends on module 1.  Handle n+1 is a module outside the
\* collection, handle n+2 one without a resource.  allowAsyncCycles varies.
RecordKinds(n) ==
  {[kind |-> "other", weak |-> w, module |-> t] : w \in BOOLEAN, t \in 1..n}
  \cup {Dep(n + 1), Dep(n + 2), Dep(Null),
        [kind |-> "CommonJsSelfReferenceDependency", weak |-> FALSE, module |-> 1],
        [kind |-> "null", weak |-> FALSE, module |-> Null]}

RecordInput(v, n, a, d) ==
  [variant |-> v, modules |-> Iota(n),
   heap |-> [h \in 1..(n + 2) |->
               IF h = 1 THEN Module(1, d)
               ELSE IF h <= n THEN Module(h, <<Dep(1)>>)
               ELSE IF h = n + 1 THEN Module(h, <<>>)
               ELSE Module(NoResource, <<>>)],
   options |-> [DefaultOptions EXCEPT !.allowAsyncCycles = a]]

\* Shape scenarios: a collection of n entries, each a null entry or a module
\* whose resource (possibly none, possibly shared) sits on the module, on its
\* rootModule or on its originalModule; either no module has dependencies or
\* every module depends on every other one.  Default options.
Shapes ==
  {[entry |-> e, resource |-> r, rootResource |-> NoResource,
    originalResource |-> NoResource] : e \in {"module"}, r \in 0..MaxRes}
  \cup {[entry |-> e, resource |-> NoResource, rootResource |-> r,
         originalResource |-> NoResource] : e \in {"module"}, r \in 1..MaxRes}
  \cup {[entry |-> e, resource |-> NoResource, rootResource |-> NoResource,
         originalResource |-> r] : e \in {"module"}, r \in 1..MaxRes}
  \cup {[entry |-> "null", resource |-> NoResource, rootResource |-> NoResource,
         originalResource |-> NoResource]}

ShapeInput(v, n, full, sh) ==
  [variant |-> v,
   modules |-> [h \in 1..n |-> IF sh[h].entry = "null" THEN Null ELSE h],
   heap |-> [h \in 1..n |->
               [resource |-> sh[h].resource,
                rootResource |-> sh[h].rootResource,
                originalResource |-> sh[h].originalResource,
                dependencies |->
                  IF full
                    THEN [p \in 1..(n - 1) |-> Dep(IF p < h THEN p ELSE p + 1)]
                    ELSE <<>>]],
   options |-> DefaultOptions]

\* Option scenarios: n modules with distinct resources in a ring (module h
\* depends on module h+1, the last on the first); the options vary: exclude
\* and include match nothing / everything or exactly one resource, and each
\* callback is configured or not.
OptionInput(v, n, opts) ==
  [variant |-> v, modules |-> Iota(n),
   heap |-> [h \in 1..n |-> Module(h, <<Dep((h % n) + 1)>>)],
   options |-> opts]

OptionSets(n) ==
  [exclude : {{}} \cup {{r} : r \in 1..n},
   include : {ResourceIds} \cup {{r} : r \in 1..n},
   failOnError : BOOLEAN, allowAsyncCycles : {FALSE},
   onDetected : BOOLEAN, onStart : BOOLEAN, onEnd : BOOLEAN]

\* ---- the pass ----
\* hook callback entered: onStart, which may throw (nothing catches it)
Start ==
  /\ pc = "start"
  /\ IF options.onStart
       THEN \E thrown \in BOOLEAN :
              /\ trace' = Append(trace, Event(IF thrown THEN "onStartThrew" ELSE "onStart",
                                              Null, <<>>))
              /\ pc' = IF thrown THEN "startThrew" ELSE "build"
       ELSE /\ trace' = trace
            /\ pc' = "build"
  /\ UNCHANGED <<input, built, mIdx, compK, compI, compilation>>

\* lines 38-161 of index.js, 284-299 of index.d.ts: module list, adjacency,
\* SCCs, invalid flags
Build ==
  /\ pc = "build"
  /\ modList' = createSortedModuleList(modules)
  /\ adj' = buildAdjacencyList(modList', options.allowAsyncCycles)
  /\ IF variant = "index.js"
       THEN \E t \in {tarjan(adj', Len(modList'))} :
              /\ sccs' = t.sccs
              /\ sccId' = t.sccId
       ELSE /\ sccs' = computeStronglyConnectedComponents(adj', Len(modList'))
            /\ sccId' = <<>>
  /\ sccInvalid' = flagInvalidComponents(sccs', modList')
  /\ pc' = "report"
  /\ UNCHANGED <<input, mIdx, compK, compI, compilation, trace>>

\* one iteration of for (mIdx ...) of index.js
ReportJs ==
  /\ pc = "report"
  /\ variant = "index.js"
  /\ mIdx < Len(modList)
  /\ \E cycleIdx \in {reportOfJs(mIdx)} :
       IF cycleIdx = <<>>
         THEN UNCHANGED <<pc, compilation, trace>>
         ELSE \E thrown \in {b \in BOOLEAN : options.onDetected \/ ~b} :
                handOff(modList[mIdx + 1], cycleIdx, thrown)
  /\ mIdx' = mIdx + 1
  /\ UNCHANGED <<input, built, compK, compI>>

\* one iteration of for (k ...) or of for (i ...) of index.d.ts
ReportDts ==
  /\ pc = "report"
  /\ variant = "index.d.ts"
  /\ compK < Len(sccs)
  /\ IF sccInvalid[compK + 1] \/ compI >= Len(sccs[compK + 1])
       THEN /\ compK' = compK + 1
            /\ compI' = 0
            /\ UNCHANGED <<pc, compilation, trace>>
       ELSE /\ \E cycleIdx \in {reportOfDts(compK, compI)},
                   node \in {sortIndicesByResource(sccs[compK + 1])[compI + 1]} :
                 IF cycleIdx = <<>>
                   THEN UNCHANGED <<pc, compilation, trace>>
                   ELSE \E thrown \in {b \in BOOLEAN : options.onDetected \/ ~b} :
                          handOff(modList[node + 1], cycleIdx, thrown)
            /\ compI' = compI + 1
            /\ compK' = compK
  /\ UNCHANGED <<input, built, mIdx>>

loopDone ==
  IF variant = "index.js" THEN mIdx >= Len(modList) ELSE compK >= Len(sccs)

\* mutant of End: onEnd is called only when the pass reported a cycle
EndOnlyAfterReports ==
  /\ pc = "report"
  /\ loopDone
  /\ trace' = (IF options.onEnd /\ \E p \in 1..Len(trace) : trace[p].type = "onDetected"
                 THEN Append(trace, Event("onEnd", Null, <<>>))
                 ELSE trace)
  /\ pc' = "done"
  /\ UNCHANGED <<input, built, mIdx, compK, compI, compilation>>

\* after the loop: onEnd, which may throw
End ==
  /\ pc = "report"
  /\ loopDone
  /\ IF options.onEnd
       THEN \E thrown \in BOOLEAN :
              /\ trace' = Append(trace, Event("onEnd", Null, <<>>))
              /\ pc' = IF thrown THEN "endThrew" ELSE "done"
       ELSE /\ trace' = trace
            /\ pc' = "done"
  /\ UNCHANGED <<input, built, mIdx, compK, compI, compilation>>

Next == Start \/ Build \/ ReportJs \/ ReportDts \/ End

InitWith(in) ==
  /\ variant = in.variant
  /\ modules = in.modules
  /\ heap = in.heap
  /\ options = in.options
  /\ pc = "start"
  /\ modList = <<>>
  /\ adj = <<>>
  /\ sccs = <<>>
  /\ sccId = <<>>
  /\ sccInvalid = <<>>
  /\ mIdx = 0
  /\ compK = 0
  /\ compI = 0
  /\ compilation = [errors |-> <<>>, warnings |-> <<>>]
  /\ trace = <<>>

InitGraph ==
  \E v \in Variants, n \in 1..MaxModules :
    \E d \in DepAssign(1, n, MaxDeps) : InitWith(GraphInput(v, n, d))

InitRecord ==
  \E v \in Variants, n \in 1..SmallModules, a \in BOOLEAN :
    \E d \in SeqsUpTo(RecordKinds(n), SmallDeps) : InitWith(RecordInput(v, n, a, d))

InitShape ==
  \E v \in Variants, n \in 1..SmallModules, full \in BOOLEAN :
    \E sh \in [1..n -> Shapes] : InitWith(ShapeInput(v, n, full, sh))

InitOption ==
  \E v \in Variants, n \in 1..SmallModules :
    \E opts \in OptionSets(n) : InitWith(OptionInput(v, n, opts))

Init == InitGraph \/ InitRecord \/ InitShape \/ InitOption

Spec == Init /\ [][Next]_vars

\* The same pass over wider graphs: more modules, so that several cyclic
\* components occur.
InitWide ==
  \E v \in Variants, n \in 1..WideModules :
    \E d \in DepAssign(1, n, WideDeps) : InitWith(GraphInput(v, n, d))

SpecWide == InitWide /\ [][Next]_vars

\* The hook callback of the other file is entered with the same modules, the
\* same options and a fresh compilation, once the first pass is over; the
\* trace keeps the events of the first pass in front of a mark.
SecondPass ==
  /\ pc \in {"done", "endThrew"}
  /\ \A p \in 1..Len(trace) : trace[p].type # "secondPass"
  /\ variant' = (IF variant = "index.js" THEN "index.d.ts" ELSE "index.js")
  /\ pc' = "start"
  /\ modList' = <<>>
  /\ adj' = <<>>
  /\ sccs' = <<>>
  /\ sccId' = <<>>
  /\ sccInvalid' = <<>>
  /\ mIdx' = 0
  /\ compK' = 0
  /\ compI' = 0
  /\ compilation' = [errors |-> <<>>, warnings |-> <<>>]
  /\ trace' = Append(trace, [type |-> "secondPass", module |-> Null,
                             cycle |-> <<>>, paths |-> <<>>])
  /\ UNCHANGED <<modules, heap, options>>

\* The two passes, index.js and index.d.ts in either order, over one input.
SpecBoth == Init /\ [][Next \/ SecondPass]_vars

\* The pass runs synchronously to completion: every step is taken.
FairSpec == Spec /\ WF_vars(Next)

\* ---- vocabulary of the properties ----
\* the graph and the component data exist
Built == pc \in {"report", "done", "endThrew"}
\* the graph and the component data have just been built, and the reporting
\* loop has not taken a step: no later step changes them
Indexed == pc = "report" /\ mIdx = 0 /\ compK = 0 /\ compI = 0
\* the reporting loop is over and the onEnd step was taken
Finished == pc \in {"done", "endThrew"}

Nodes == 0..(Len(modList) - 1)
HasEdge(i, j) == \E p \in 1..Len(adj[i]) : adj[i][p] = j

\* reachability along adjacency edges, by closure
RECURSIVE Closure(_)
Closure(S) ==
  LET T == S \cup UNION {Range(adj[i]) : i \in S}
  IN IF T = S THEN S ELSE Closure(T)
Reaches(i, j) == j \in Closure({i})
\* the mutual-reachability class of i
ClassOf(i) == {j \in Closure({i}) : Reaches(j, i)}

\* index of a module of the list (the collection holds a module once)
IndexOf(m) == (CHOOSE p \in 1..Len(modList) : modList[p] = m) - 1
ResourceAt(i) == getResource(modList[i + 1])

HandOffTypes == {"onDetected", "error", "warning"}
IsHandOff(e) == e.type \in HandOffTypes
HandOffs == SelectSeq(trace, IsHandOff)
HandOffCount(m) ==
  Cardinality({p \in 1..Len(trace) : IsHandOff(trace[p]) /\ trace[p].module = m})

\* conditions (i) and (ii) of C1
InCyclicComponent(i) ==
  LET class == ClassOf(i)
  IN /\ Cardinality(class) > 1
     /\ \A j \in class : ResourceAt(j) # NoResource
Eligible(m) ==
  /\ m \in Range(modList)
  /\ InCyclicComponent(IndexOf(m))
  /\ getResource(m) \notin options.exclude
  /\ getResource(m) \in options.include

Channel ==
  IF options.onDetected THEN "onDetected"
  ELSE IF options.failOnError THEN "error" ELSE "warning"

OfType(q, type) == SelectSeq(q, LAMBDA e : e.type = type)

\* C1: a pass hands off exactly once for each module that lies in a cyclic
\* component (size > 1, every member with a resource) and passes exclude and
\* include, and never for another module; a hand-off is an onDetected call
\* when onDetected is configured, else one diagnostic in compilation.errors
\* (failOnError) or compilation.warnings.
C1_OneHandOffPerEligibleModule ==
  /\ ~Built => HandOffs = <<>>
  /\ Built =>
       LET eligible == {m \in DOMAIN heap : Eligible(m)}
       IN \A m \in DOMAIN heap :
            /\ HandOffCount(m) <= (IF m \in eligible THEN 1 ELSE 0)
            /\ Finished => HandOffCount(m) = (IF m \in eligible THEN 1 ELSE 0)
  /\ \A p \in 1..Len(trace) : IsHandOff(trace[p]) => trace[p].type = Channel
  /\ OfType(compilation.errors, "error") = OfType(trace, "error")
  /\ compilation.warnings = OfType(trace, "warning")

\* C1's case: a finished pass with a cyclic component of which one member was
\* handed off and another was kept back by the filters
C1_Witness ==
  /\ Finished
  /\ \E m \in Range(modList), x \in Range(modList) :
       /\ Eligible(m) /\ HandOffCount(m) = 1
       /\ IndexOf(x) \in ClassOf(IndexOf(m))
       /\ ~Eligible(x) /\ HandOffCount(x) = 0

\* C2: every reported cycle for start s is [v0, ..., vk, v0] with v0 = s,
\* k >= 1, v0..vk pairwise distinct members of s's component, and every
\* consecutive pair (the closing pair included) an adjacency entry, wherever
\* the filters put the other modules of the path.
IsCycleFrom(c, s) ==
  /\ Len(c) >= 3
  /\ c[1] = s /\ c[Len(c)] = s
  /\ \A p, q \in 1..(Len(c) - 1) : p # q => c[p] # c[q]
  /\ Range(c) \subseteq ClassOf(s)
  /\ \A p \in 1..(Len(c) - 1) : HasEdge(c[p], c[p + 1])

C2_ReportedCycleIsSimpleCycle ==
  \A p \in 1..Len(trace) :
    IsHandOff(trace[p]) => IsCycleFrom(trace[p].cycle, IndexOf(trace[p].module))

\* C2's case: a reported cycle found after the search backed out of a dead
\* end: a module of the path lists, before its successor on the path, a
\* member of the component that is not on the path
C2_Witness ==
  \E p \in 1..Len(trace) :
    /\ IsHandOff(trace[p])
    /\ LET c == trace[p].cycle
       IN \E q \in 1..(Len(c) - 1) :
            \E a, b \in 1..Len(adj[c[q]]) :
              /\ a < b
              /\ adj[c[q]][b] = c[q + 1]
              /\ adj[c[q]][a] \in ClassOf(c[1]) \ Range(c)

\* C2's case under the filters: a module of the reported path is excluded
C2_WitnessFiltered ==
  \E p \in 1..Len(trace) :
    /\ IsHandOff(trace[p])
    /\ \E q \in 1..Len(trace[p].paths) : trace[p].paths[q] \in options.exclude

\* C3: the component list holds every index in exactly one component, and two
\* indices share a component exactly when each reaches the other.
ComponentsOf(i) ==
  {<<s, p>> \in (1..Len(sccs)) \X (1..Len(modList)) :
     p <= Len(sccs[s]) /\ sccs[s][p] = i}

C3_ComponentsAreMutualReachabilityClasses ==
  Indexed =>
    /\ \A i \in Nodes : Cardinality(ComponentsOf(i)) = 1
    /\ \A s \in 1..Len(sccs) : Range(sccs[s]) \subseteq Nodes /\ sccs[s] # <<>>
    /\ \A i, j \in Nodes :
         (\E s \in 1..Len(sccs) : {i, j} \subseteq Range(sccs[s]))
           <=> (Reaches(i, j) /\ Reaches(j, i))

\* C3's case: a built graph with a component of several indices that has an
\* edge into a component closed before it
C3_Witness ==
  /\ Indexed
  /\ \E s, t \in 1..Len(sccs) :
       /\ t < s
       /\ Len(sccs[s]) > 1
       /\ \E i \in Range(sccs[s]), j \in Range(sccs[t]) : HasEdge(i, j)

\* ---- C4: allowAsyncCycles and weak dependency records ----
WithoutWeak(deps) == SelectSeq(deps, LAMBDA d : ~d.weak)
WeakCleared(deps) == [p \in 1..Len(deps) |-> [deps[p] EXCEPT !.weak = FALSE]]

\* the adjacency lists a pass builds when every module's dependency list is
\* rewritten by change(_) and allowAsyncCycles is a
AdjacencyOver(change(_), a) ==
  [i \in Nodes |->
     pushAll(collect(modList[i + 1], change(heap[modList[i + 1]].dependencies), a),
             modList)]

\* a surviving dependency record of modList[i] on modList[j] that is not weak
StrongEdge(i, j) ==
  \E p \in 1..Len(heap[modList[i + 1]].dependencies) :
    LET d == heap[modList[i + 1]].dependencies[p]
    IN d.kind = "other" /\ ~d.weak /\ d.module = modList[j + 1]

\* C4: with allowAsyncCycles the pass builds the graph, and so reports the
\* cycles, of the same input without its weak records: every reported cycle
\* runs over records that are not weak; without allowAsyncCycles a weak record
\* gives the edge the same record gives when it is not weak.
C4_WeakRecordsUnderAllowAsyncCycles ==
  Built =>
    IF options.allowAsyncCycles
      THEN /\ adj = AdjacencyOver(WithoutWeak, TRUE)
           /\ adj = AdjacencyOver(WithoutWeak, FALSE)
           /\ \A p \in 1..Len(trace) :
                IsHandOff(trace[p]) =>
                  \A q \in 1..(Len(trace[p].cycle) - 1) :
                    StrongEdge(trace[p].cycle[q], trace[p].cycle[q + 1])
      ELSE adj = AdjacencyOver(WeakCleared, FALSE)

\* C4's case: allowAsyncCycles is set, two modules depend on each other, one
\* of them through a weak record only, and the finished pass reported nothing
C4_Witness ==
  /\ Finished
  /\ options.allowAsyncCycles
  /\ HandOffs = <<>>
  /\ \E i, j \in Nodes :
       /\ StrongEdge(j, i) /\ ~StrongEdge(i, j)
       /\ \E p \in 1..Len(heap[modList[i + 1]].dependencies) :
            LET d == heap[modList[i + 1]].dependencies[p]
            IN d.weak /\ d.module = modList[j + 1]

\* ---- C5: onStart and onEnd ----
TypeAt(p) == trace[p].type
Calls(types) == {p \in 1..Len(trace) : TypeAt(p) \in types}

C5_Order ==
  (options.onStart /\ options.onEnd) =>
    /\ Cardinality(Calls({"onStart", "onStartThrew"})) = (IF pc = "start" THEN 0 ELSE 1)
    /\ \A p \in Calls({"onStart", "onStartThrew"}) : p = 1
    /\ Cardinality(Calls({"onEnd"})) = (IF Finished THEN 1 ELSE 0)
    /\ \A p \in Calls({"onEnd"}) : p = Len(trace)

OnStartReturned == options.onStart /\ options.onEnd /\ Calls({"onStart"}) # {}
OnEndCalled == Calls({"onEnd"}) # {}

\* C5: with onStart and onEnd configured, onStart is called once, before
\* every onDetected call and every diagnostic; onEnd is called once, after
\* all of them; and once onStart has returned, onEnd is called in the end.
C5_OnStartFirstOnEndLast == [](C5_Order) /\ (OnStartReturned ~> OnEndCalled)

\* C5's case: a finished pass with both callbacks and two hand-offs between
C5_Witness ==
  /\ pc = "done"
  /\ options.onStart /\ options.onEnd
  /\ Len(trace) >= 4
  /\ TypeAt(1) = "onStart" /\ TypeAt(Len(trace)) = "onEnd"
  /\ Len(HandOffs) >= 2

\* ---- C6: onDetected raises an error ----
OnDetectedCount(m) ==
  Cardinality({p \in Calls({"onDetected"}) : trace[p].module = m})

C6_Caught ==
  options.onDetected =>
    /\ pc \in {"start", "build", "report", "done", "startThrew", "endThrew"}
    /\ compilation.errors = OfType(trace, "caught")
    /\ \A p \in Calls({"caught"}) :
         p > 1 /\ TypeAt(p - 1) = "onDetected" /\ trace[p - 1].module = trace[p].module
    /\ Finished =>
         /\ \A m \in DOMAIN heap : OnDetectedCount(m) = (IF Eligible(m) THEN 1 ELSE 0)
         /\ options.onEnd => OnEndCalled

ErrorCaught == Calls({"caught"}) # {}

\* C6: an error raised by onDetected is appended to compilation.errors and
\* leaves the pass running: every eligible module still gets its onDetected
\* call and onEnd is still called; only onStart and onEnd can end the pass
\* with an error.
C6_OnDetectedErrorIsCaught == [](C6_Caught) /\ (ErrorCaught ~> Finished)

\* C6's case: the first onDetected call raised, a later module got its call
\* all the same, and onEnd was called
C6_Witness ==
  /\ pc = "done"
  /\ options.onDetected /\ options.onEnd
  /\ \E p \in Calls({"caught"}) :
       \E q \in Calls({"onDetected"}) : q > p /\ trace[q].module # trace[p].module
  /\ OnEndCalled

\* ---- C7, C8: order of the reports ----
StartAt(p) == IndexOf(trace[p].module)
HandOffAt == {p \in 1..Len(trace) : IsHandOff(trace[p])}

\* C7: within a cyclic component the start modules are reported in resource
\* order, and members with equal resources in ascending index order.
C7_OrderWithinComponent ==
  \A p, q \in HandOffAt :
    (p < q /\ StartAt(q) \in ClassOf(StartAt(p))) =>
      /\ ResourceAt(StartAt(p)) <= ResourceAt(StartAt(q))
      /\ ResourceAt(StartAt(p)) = ResourceAt(StartAt(q)) => StartAt(p) < StartAt(q)

\* C8: across the whole pass the reports come in resource order, also for
\* modules of different cyclic components.
C8_OrderAcrossPass ==
  \A p, q \in HandOffAt :
    p < q => ResourceAt(StartAt(p)) <= ResourceAt(StartAt(q))

\* ---- C9: shuffling the collection ----
Shuffles ==
  {[p \in 1..Len(modules) |-> modules[f[p]]] : f \in Permutations(1..Len(modules))}

ArrivalIn(ms, m) == CHOOSE p \in 1..Len(ms) : ms[p] = m
UniqueResource(m) ==
  \A x \in Range(modList) \ {m} : getResource(x) # getResource(m)

\* C9 as stated: no shuffle of the collection changes the index of a module.
C9_ShuffleKeepsEveryIndex ==
  Indexed =>
    \A ms \in Shuffles :
      LET list == createSortedModuleList(ms)
      IN \A m \in Range(modList) : idOfIn(list, m) = IndexOf(m)

\* C9 as amended: a shuffle keeps the index of every module whose resource no
\* other module shares (no resource counting as the empty one); modules that
\* share a resource fill the same indices, in their order of arrival.
C9_ShuffleKeepsIndexOfUniqueResource ==
  Indexed =>
    \A ms \in Shuffles :
      LET list == createSortedModuleList(ms)
      IN \A m \in Range(modList) :
           LET j == idOfIn(list, m)
           IN /\ UniqueResource(m) => j = IndexOf(m)
              /\ j = Cardinality({x \in Range(modList) : getResource(x) < getResource(m)})
                     + Cardinality({x \in Range(modList) :
                                      /\ getResource(x) = getResource(m)
                                      /\ ArrivalIn(ms, x) < ArrivalIn(ms, m)})

\* C9's case: a module with a resource of its own that the sort moved away
\* from its place of arrival, past a null entry or another module
C9_Witness ==
  /\ Indexed
  /\ \E m \in Range(modList) :
       /\ UniqueResource(m)
       /\ Len(modList) > 1
       /\ IndexOf(m) + 1 # ArrivalIn(modules, m)

Survives(m, d) ==
  /\ d.kind = "other"
  /\ ~(options.allowAsyncCycles /\ d.weak)
  /\ d.module # Null
  /\ d.module # m
  /\ d.module \in Range(modList)
  /\ getResource(d.module) # NoResource

C11_SearchAlwaysFindsCycle ==
  /\ Indexed =>
       \A s \in 1..Len(sccs) :
         Len(sccs[s]) > 1 =>
           \A i \in Range(sccs[s]) :
             LET found == findCycleFrom(adj, i, Range(sccs[s]))
             IN found # <<>> /\ cycleOf(adj, i, Range(sccs[s])) = found
  /\ Finished =>
       \A p \in HandOffAt :
         trace[p].cycle = findCycleFrom(adj, StartAt(p), ClassOf(StartAt(p)))

\* C11's case: a component of three or more indices with a member whose first
\* neighbor in the component has no edge back to it (the fallback would not
\* name a cycle), and the finished pass reported the member
C11_Witness ==
  /\ Finished
  /\ \E p \in HandOffAt :
       LET i == StartAt(p)
           nbs == SelectSeq(adj[i], LAMBDA w : w \in ClassOf(i))
       IN /\ Cardinality(ClassOf(i)) >= 3
          /\ ~HasEdge(nbs[1], i)
          /\ Len(trace[p].cycle) > 3

\* ---- C12: the pass of index.js and the pass of index.d.ts ----
SecondPassAt == {p \in 1..Len(trace) : trace[p].type = "secondPass"}
\* the reports among trace[lo..hi]: start module and cycle index sequence
ReportsIn(lo, hi) ==
  {<<trace[p].module, trace[p].cycle>> : p \in {q \in HandOffAt : lo <= q /\ q <= hi}}
ReportSeqIn(lo, hi) ==
  SelectSeq(SubSeq(trace, lo, hi), IsHandOff)

\* C12: over the same input and options the pass of index.js and the pass of
\* index.d.ts produce the same set of reports: the same start modules, each
\* with the same cycle index sequence.
C12_PassesReportTheSameSet ==
  (Finished /\ SecondPassAt # {}) =>
    \A split \in SecondPassAt :
      ReportsIn(1, split - 1) = ReportsIn(split + 1, Len(trace))

\* C12's case: both passes are over, each reported two or more modules, and
\* the two passes reported them in different orders
C12_Witness ==
  /\ Finished
  /\ \E split \in SecondPassAt :
       /\ Cardinality(ReportsIn(1, split - 1)) >= 2
       /\ Len(ReportSeqIn(1, split - 1)) = Len(ReportSeqIn(split + 1, Len(trace)))
       /\ \E p \in 1..Len(ReportSeqIn(1, split - 1)) :
            ReportSeqIn(1, split - 1)[p].module
              # ReportSeqIn(split + 1, Len(trace))[p].module

====
